---- MODULE Spec2Model ----
(***************************************************************************)
(* Model of main.py: the FastAPI service that ingests batches of events,   *)
(* scores each valid event in the default executor, keeps a per-user       *)
(* rolling window of (timestamp, score) pairs and serves a median and      *)
(* aggregate statistics.                                                   *)
(*                                                                         *)
(* Scheduling.  The handlers are coroutines of one asyncio event loop: a   *)
(* handler runs without interruption until an await that really suspends.  *)
(* The only such await is `await loop.run_in_executor(...)` (main.py:145). *)
(* `async with stats_lock` never suspends, because no holder of the lock   *)
(* awaits while holding it, and `await _update_user_scores(...)` runs the  *)
(* coroutine inline (it has no await of its own).  One action of the model *)
(* is therefore one stretch of a handler between two suspensions.          *)
(*                                                                         *)
(* Input.  A batch is chosen by the caller.  Its length is fixed when the  *)
(* call arrives; its items are drawn when the loop of main.py:136 reaches  *)
(* them (the loop never looks ahead), see Segments.                        *)
(*                                                                         *)
(* Answers.  result[c] is the response of Ingest call c; response is the    *)
(* answer the step just taken gave to a Median or Snapshot call (neither    *)
(* handler suspends, so call and answer are one step).                     *)
(*                                                                         *)
(* Numbers.  Scores are floats in the program; the model uses the even     *)
(* integers 2 and 6, so that the mean of two scores is an exact integer.   *)
(* Latencies are integers (a number of clock ticks); the average latency   *)
(* is kept as the fraction [num, den].                                     *)
(***************************************************************************)
EXTENDS Integers, Sequences, FiniteSets

\* ---------------------------------------------------------------- bounds
MaxIngest == 2    \* Ingest calls in one run
MaxBatch == 2     \* items in one batch
MaxMedian == 1    \* Median calls in one run
MaxWorkers == 1   \* threads of the executor

\* ------------------------------------------------------- program constants
ROLLING_WINDOW_SECONDS == 300

\* ---------------------------------------------------------------- values
None == "None"                                \* Python's None, a missing JSON field
Users == {"u1", "u2"}
Null == [tag |-> "null", val |-> 0]           \* a JSON null in a response
Num(n) == [tag |-> "num", val |-> n]
TsMissing == [tag |-> "none", val |-> 0]      \* event.get("timestamp") is None
TsInt(n) == [tag |-> "int", val |-> n]        \* an integer timestamp
TsText == [tag |-> "str", val |-> 0]          \* a present, non-numeric timestamp ("abc")
Durations == {1, 3}                           \* elapsed perf_counter ticks of a batch

Event(u, t, f) == [user_id |-> u, timestamp |-> t, features |-> f]

\* The items a caller may put in a batch.  "F1" and "F2" are feature vectors
\* the model scores; "FBad" is one it raises on (a wrong length).
Events ==
    { Event("u1", TsInt(0), "F1"), Event("u1", TsInt(300), "F2"),
      Event("u1", TsInt(400), "F1"), Event("u1", TsInt(500), "F2"),
      Event("u2", TsInt(400), "F2"),
      Event("u1", TsMissing, "F1"), Event(None, TsInt(0), "F1"),
      Event("u1", TsInt(0), None), Event("u1", TsInt(0), "FBad"),
      Event("u1", TsText, "F1") }

NoEvent == Event(None, TsMissing, None)
NoResponse == [kind |-> "none"]

Ingests == 1..MaxIngest

VARIABLES
    loaded_model,     \* _loaded_model is not None
    user_scores,      \* user_id -> deque of <<timestamp, score>>; DOMAIN = the keys
    stats,            \* the stats dictionary
    stats_lock,       \* stats_lock.locked()
    pool_queue,       \* the executor's work queue (ingest calls waiting for a thread)
    pc,               \* per Ingest call: idle, queued, running, done, raised, rejected
    blen,             \* per Ingest call: len(events)
    idx,              \* per Ingest call: items of the batch the loop has taken
    event,            \* per Ingest call: the item being scored
    processed_count,  \* per Ingest call: the local processed_count
    result,           \* per Ingest call: the response body
    response,         \* what the last step answered to a Median or Snapshot call, if anything
    h_expected,       \* history, per Ingest call: items taken that are valid and scorable
    h_good,           \* history, per Ingest call: items taken that are well-formed and scorable
    h_appended,       \* history, per Ingest call: samples this call appended
    h_failed,         \* history, per Ingest call: items whose scoring raised
    h_median_calls,   \* history: completed Median calls
    h_last,           \* history, per user: the timestamp of the last Record, or Null
    h_invalid,        \* history, per Ingest call: items taken that lacked a field
    h_records,        \* history, per user: the Records in the order they took place
    h_before          \* history, per user: the window just before the last Record

vars == <<loaded_model, user_scores, stats, stats_lock, pool_queue, pc, blen, idx,
          event, processed_count, result, response,
          h_expected, h_good, h_appended, h_failed, h_median_calls, h_last,
                   h_invalid, h_records, h_before>>

\* ------------------------------------------------------------- helpers
RECURSIVE SumSeq(_)
SumSeq(s) == IF s = <<>> THEN 0 ELSE Head(s) + SumSeq(Tail(s))

SeqsUpTo(S, n) == UNION {[1..k -> S] : k \in 0..n}

\* Mutant of IsValid: the check forgets the features field.
IsValidLax(e) == ~(e.user_id = None \/ e.timestamp = TsMissing)

\* main.py:140
IsValid(e) == ~(e.user_id = None \/ e.timestamp = TsMissing \/ e.features = None)

\* The scorer's output for a feature vector it accepts (create_model.py forward).
ModelOutput(f) == IF f = "F1" THEN 2 ELSE 6

\* main.py:59-82.  [ok |-> FALSE] stands for a raised exception: no model is
\* loaded (main.py:74-77), or torch rejects the features (main.py:79-81).
PredictSync(loaded, f) ==
    IF ~loaded THEN [ok |-> FALSE, val |-> 0]
    ELSE IF f \in {"F1", "F2"} THEN [ok |-> TRUE, val |-> ModelOutput(f)]
    ELSE [ok |-> FALSE, val |-> 0]

\* int(ts) of main.py:150: an int is kept, a non-numeric string raises ValueError.
IntOf(ts) == IF ts.tag = "int" THEN [ok |-> TRUE, val |-> ts.val] ELSE [ok |-> FALSE, val |-> 0]

\* Mutant of Prune: a sample at exactly the cutoff is dropped too (<= for <).
RECURSIVE PruneInclusive(_, _)
PruneInclusive(dq, cutoff) ==
    IF dq # <<>> /\ Head(dq)[1] <= cutoff THEN PruneInclusive(Tail(dq), cutoff) ELSE dq

\* main.py:97-98
RECURSIVE Prune(_, _)
Prune(dq, cutoff) ==
    IF dq # <<>> /\ Head(dq)[1] < cutoff THEN Prune(Tail(dq), cutoff) ELSE dq

\* Mutant of UpdateUserScores: the sample is put into a fresh deque, the samples
\* the user had are lost.
UpdateUserScoresLost(us, user_id, timestamp, score) ==
    [u \in DOMAIN us \cup {user_id} |->
        IF u = user_id THEN <<<<timestamp, score>>>> ELSE us[u]]

\* Mutant of UpdateUserScores: the sample is appended and the window is left
\* unpruned.
UpdateUserScoresNoPrune(us, user_id, timestamp, score) ==
    LET dq == IF user_id \in DOMAIN us THEN us[user_id] ELSE <<>>
    IN  [u \in DOMAIN us \cup {user_id} |->
            IF u = user_id THEN Append(dq, <<timestamp, score>>) ELSE us[u]]

\* Mutant of UpdateUserScores: the sample is put at the head (appendleft).
UpdateUserScoresAtHead(us, user_id, timestamp, score) ==
    LET dq == IF user_id \in DOMAIN us THEN us[user_id] ELSE <<>>
        cutoff == timestamp - ROLLING_WINDOW_SECONDS
    IN  [u \in DOMAIN us \cup {user_id} |->
            IF u = user_id THEN Prune(<<<<timestamp, score>>>> \o dq, cutoff) ELSE us[u]]

\* Mutant of UpdateUserScores: the cutoff lies ahead of the inserted timestamp
\* (+ for -).
UpdateUserScoresCutoffAhead(us, user_id, timestamp, score) ==
    LET dq == IF user_id \in DOMAIN us THEN us[user_id] ELSE <<>>
        appended == Append(dq, <<timestamp, score>>)
        cutoff == timestamp + ROLLING_WINDOW_SECONDS
    IN  [u \in DOMAIN us \cup {user_id} |->
            IF u = user_id THEN Prune(appended, cutoff) ELSE us[u]]

\* main.py:93-98; user_scores is a defaultdict, so a missing key starts empty.
UpdateUserScores(us, user_id, timestamp, score) ==
    LET dq == IF user_id \in DOMAIN us THEN us[user_id] ELSE <<>>
        appended == Append(dq, <<timestamp, score>>)
        cutoff == timestamp - ROLLING_WINDOW_SECONDS
    IN  [u \in DOMAIN us \cup {user_id} |->
            IF u = user_id THEN Prune(appended, cutoff) ELSE us[u]]

\* sorted(data) of statistics.median: insertion into a sorted sequence.
RECURSIVE Insert(_, _)
Insert(x, s) ==
    IF s = <<>> THEN <<x>>
    ELSE IF x <= Head(s) THEN <<x>> \o s
    ELSE <<Head(s)>> \o Insert(x, Tail(s))

RECURSIVE Sorted(_)
Sorted(s) == IF s = <<>> THEN <<>> ELSE Insert(Head(s), Sorted(Tail(s)))

\* Mutant of PyMedian: an even count yields the upper middle value (median_high).
PyMedianHigh(scores) ==
    LET data == Sorted(scores)
        n == Len(data)
        i == n \div 2
    IN  data[i + 1]

\* statistics.median(scores), called at main.py:175 on a non-empty list.
PyMedian(scores) ==
    LET data == Sorted(scores)
        n == Len(data)
        i == n \div 2
    IN  IF n % 2 = 1 THEN data[i + 1] ELSE (data[i] + data[i + 1]) \div 2

\* main.py:171-175
GetUserMedian(us, user_id) ==
    IF user_id \notin DOMAIN us \/ us[user_id] = <<>> THEN Null
    ELSE Num(PyMedian([k \in 1..Len(us[user_id]) |-> us[user_id][k][2]]))

\* main.py:132
RecordIngestRequest(st) == [st EXCEPT !.ingest_requests = @ + 1]

\* Mutant of RecordEventsProcessed: the total is overwritten, not added to.
RecordEventsProcessedOverwrite(st, count, duration) ==
    [st EXCEPT !.events_processed = count,
               !.ingest_latencies = Append(@, duration)]

\* Mutant of RecordEventsProcessed: only the last latency is kept.
RecordEventsProcessedKeepLast(st, count, duration) ==
    [st EXCEPT !.events_processed = @ + count,
               !.ingest_latencies = <<duration>>]

\* main.py:155-156
RecordEventsProcessed(st, count, duration) ==
    [st EXCEPT !.events_processed = @ + count,
               !.ingest_latencies = Append(@, duration)]

\* main.py:170
RecordMedianRequest(st) == [st EXCEPT !.median_requests = @ + 1]

\* Mutant of Snapshot: the mean divides by the number of requests.
SnapshotAvgOverRequests(st) ==
    LET latencies == st.ingest_latencies
    IN  [ingest_requests |-> st.ingest_requests,
         events_processed |-> st.events_processed,
         median_requests |-> st.median_requests,
         avg_ingest_latency_seconds |->
             IF latencies # <<>>
             THEN [num |-> SumSeq(latencies), den |-> st.ingest_requests]
             ELSE [num |-> 0, den |-> 1]]

\* main.py:187-194
Snapshot(st) ==
    LET latencies == st.ingest_latencies
    IN  [ingest_requests |-> st.ingest_requests,
         events_processed |-> st.events_processed,
         median_requests |-> st.median_requests,
         avg_ingest_latency_seconds |->
             IF latencies # <<>> THEN [num |-> SumSeq(latencies), den |-> Len(latencies)]
             ELSE [num |-> 0, den |-> 1]]

\* ---------------------------------------------------------------- Init
Init ==
    /\ loaded_model \in BOOLEAN
    /\ user_scores = [u \in {} |-> <<>>]
    /\ stats = [ingest_requests |-> 0, events_processed |-> 0, median_requests |-> 0,
                ingest_latencies |-> <<>>]
    /\ stats_lock = FALSE
    /\ pool_queue = <<>>
    /\ pc = [c \in Ingests |-> "idle"]
    /\ blen = [c \in Ingests |-> 0]
    /\ idx = [c \in Ingests |-> 0]
    /\ event = [c \in Ingests |-> NoEvent]
    /\ processed_count = [c \in Ingests |-> 0]
    /\ result = [c \in Ingests |-> [status |-> 0, processed |-> 0]]
    /\ response = NoResponse
    /\ h_expected = [c \in Ingests |-> 0]
    /\ h_good = [c \in Ingests |-> 0]
    /\ h_appended = [c \in Ingests |-> 0]
    /\ h_failed = [c \in Ingests |-> 0]
    /\ h_median_calls = 0
    /\ h_last = [u \in Users |-> Null]
    /\ h_invalid = [c \in Ingests |-> 0]
    /\ h_records = [u \in Users |-> <<>>]
    /\ h_before = [u \in Users |-> <<>>]

\* ------------------------------------------------------------- actions
\* 1-based position of the first valid item of seg, Len(seg) + 1 when it has none:
\* where the loop of main.py:136-142 stops skipping.
RECURSIVE FirstValid(_)
FirstValid(seg) ==
    IF seg = <<>> THEN 1
    ELSE IF IsValid(Head(seg)) THEN 1
    ELSE 1 + FirstValid(Tail(seg))

\* The next items of a batch with n items left, as far as the loop goes in one
\* stretch: it skips invalid items and stops at the first valid one (which it
\* sends to the executor) or at the end of the batch.
Segments(n) ==
    {seg \in SeqsUpTo(Events, n) :
        /\ FirstValid(seg) >= Len(seg)
        /\ FirstValid(seg) > Len(seg) => Len(seg) = n}

\* For the history variables: the item has its three fields; it is an Event of
\* the expected types (integer timestamp); a scorer is loaded and accepts the
\* item's features.
AllPresent(e) == e.user_id # None /\ e.timestamp.tag # "none" /\ e.features # None
WellFormed(e) == AllPresent(e) /\ e.timestamp.tag = "int"
Scorable(e) == loaded_model /\ e.features \in {"F1", "F2"}

\* main.py:136-157 from item i + 1 on, with pcount events processed so far and
\* st the stats dictionary as the handler has left it: skip invalid items, then
\* either submit the next valid item to the executor and suspend (main.py:145),
\* or leave the loop, record the batch in the stats and return (main.py:153-157).
RunLoop(c, n, i, pcount, st) ==
    \E seg \in Segments(n - i) :
        LET k == Len(seg) IN
        /\ idx' = [idx EXCEPT ![c] = i + k]
        /\ processed_count' = [processed_count EXCEPT ![c] = pcount]
        /\ h_expected' = [h_expected EXCEPT
               ![c] = @ + Cardinality({j \in 1..k : AllPresent(seg[j]) /\ Scorable(seg[j])})]
        /\ h_invalid' = [h_invalid EXCEPT
               ![c] = @ + Cardinality({j \in 1..k : ~AllPresent(seg[j])})]
        /\ h_good' = [h_good EXCEPT
               ![c] = @ + Cardinality({j \in 1..k : WellFormed(seg[j]) /\ Scorable(seg[j])})]
        /\ IF FirstValid(seg) = k /\ k > 0
           THEN /\ pc' = [pc EXCEPT ![c] = "queued"]
                /\ event' = [event EXCEPT ![c] = seg[k]]
                /\ pool_queue' = Append(pool_queue, c)
                /\ stats' = st
                /\ UNCHANGED result
           ELSE \E duration \in Durations :
                /\ ~stats_lock
                /\ stats' = RecordEventsProcessed(st, pcount, duration)
                /\ pc' = [pc EXCEPT ![c] = "done"]
                /\ result' = [result EXCEPT ![c] = [status |-> 200, processed |-> pcount]]
                /\ event' = [event EXCEPT ![c] = NoEvent]
                /\ UNCHANGED pool_queue

\* Calls take the slots 1, 2, ... in the order they arrive.
NextSlot(c) == pc[c] = "idle" /\ (IF c = 1 THEN TRUE ELSE pc[c - 1] # "idle")

\* main.py:127-129: a payload without "events" is answered 400.
IngestReject(c) ==
    /\ NextSlot(c)
    /\ response' = NoResponse
    /\ pc' = [pc EXCEPT ![c] = "rejected"]
    /\ result' = [result EXCEPT ![c] = [status |-> 400, processed |-> 0]]
    /\ UNCHANGED <<loaded_model, user_scores, stats, stats_lock, pool_queue, blen, idx,
                   event, processed_count,
                   h_expected, h_good, h_appended, h_failed, h_median_calls, h_last,
                   h_invalid, h_records, h_before>>

\* Mutant of IngestStart: a batch is taken up only while no other call is in
\* flight (one lock held across the whole handler).
IngestStartSerialized(c) ==
    /\ NextSlot(c)
    /\ \A d \in Ingests : pc[d] \notin {"queued", "running"}
    /\ response' = NoResponse
    /\ ~stats_lock
    /\ \E n \in 0..MaxBatch :
        /\ blen' = [blen EXCEPT ![c] = n]
        /\ RunLoop(c, n, 0, 0, RecordIngestRequest(stats))
    /\ UNCHANGED <<loaded_model, user_scores, stats_lock, h_appended, h_failed,
                   h_median_calls, h_last, h_records, h_before>>

\* main.py:125-145 (or -157 when the batch has no valid item).
IngestStart(c) ==
    /\ NextSlot(c)
    /\ response' = NoResponse
    /\ ~stats_lock
    /\ \E n \in 0..MaxBatch :
        /\ blen' = [blen EXCEPT ![c] = n]
        /\ RunLoop(c, n, 0, 0, RecordIngestRequest(stats))
    /\ UNCHANGED <<loaded_model, user_scores, stats_lock, h_appended, h_failed,
                   h_median_calls, h_last, h_records, h_before>>

\* ThreadPoolExecutor: a free thread takes the oldest work item and runs
\* _predict_sync on it.
WorkerStart(c) ==
    /\ pool_queue # <<>> /\ Head(pool_queue) = c
    /\ response' = NoResponse
    /\ Cardinality({d \in Ingests : pc[d] = "running"}) < MaxWorkers
    /\ pool_queue' = Tail(pool_queue)
    /\ pc' = [pc EXCEPT ![c] = "running"]
    /\ UNCHANGED <<loaded_model, user_scores, stats, stats_lock, blen, idx, event,
                   processed_count, result,
                   h_expected, h_good, h_appended, h_failed, h_median_calls, h_last,
                   h_invalid, h_records, h_before>>

\* The outcome of `await loop.run_in_executor(None, _predict_sync, features)`
\* for call c, whose thread has run to its end (main.py:145).
Outcome(c) == PredictSync(loaded_model, event[c].features)

\* Mutant of ScoreFailed: the failed item is counted as processed.
ScoreFailedCounted(c) ==
    /\ pc[c] = "running"
    /\ response' = NoResponse
    /\ ~Outcome(c).ok
    /\ h_failed' = [h_failed EXCEPT ![c] = @ + 1]
    /\ RunLoop(c, blen[c], idx[c], processed_count[c] + 1, stats)
    /\ UNCHANGED <<loaded_model, user_scores, stats_lock, blen,
                   h_appended, h_median_calls, h_last, h_records, h_before>>

\* Mutant of ScoreFailed: no try block, the exception ends the handler.
ScoreFailedAborts(c) ==
    /\ pc[c] = "running"
    /\ response' = NoResponse
    /\ ~Outcome(c).ok
    /\ h_failed' = [h_failed EXCEPT ![c] = @ + 1]
    /\ pc' = [pc EXCEPT ![c] = "raised"]
    /\ result' = [result EXCEPT ![c] = [status |-> 500, processed |-> 0]]
    /\ event' = [event EXCEPT ![c] = NoEvent]
    /\ UNCHANGED <<loaded_model, user_scores, stats, stats_lock, pool_queue, blen, idx,
                   processed_count,
                   h_expected, h_good, h_appended, h_median_calls, h_last,
                   h_invalid, h_records, h_before>>

\* Mutant of ScoreFailed: the failed item is submitted again until it scores.
ScoreFailedRetry(c) ==
    /\ pc[c] = "running"
    /\ response' = NoResponse
    /\ ~Outcome(c).ok
    /\ pc' = [pc EXCEPT ![c] = "queued"]
    /\ pool_queue' = Append(pool_queue, c)
    /\ UNCHANGED <<loaded_model, user_scores, stats, stats_lock, blen, idx, event,
                   processed_count, result,
                   h_expected, h_good, h_appended, h_failed, h_median_calls, h_last,
                   h_invalid, h_records, h_before>>

\* main.py:146-148, then the loop again: the scoring raised, the item is skipped.
ScoreFailed(c) ==
    /\ pc[c] = "running"
    /\ response' = NoResponse
    /\ ~Outcome(c).ok
    /\ h_failed' = [h_failed EXCEPT ![c] = @ + 1]
    /\ RunLoop(c, blen[c], idx[c], processed_count[c], stats)
    /\ UNCHANGED <<loaded_model, user_scores, stats_lock, blen,
                   h_appended, h_median_calls, h_last, h_records, h_before>>

\* main.py:150: int(ts) raises outside the try block; the handler ends with the
\* exception (a 500 response) and never reaches main.py:153-157.
TimestampError(c) ==
    /\ pc[c] = "running"
    /\ response' = NoResponse
    /\ Outcome(c).ok
    /\ ~IntOf(event[c].timestamp).ok
    /\ pc' = [pc EXCEPT ![c] = "raised"]
    /\ result' = [result EXCEPT ![c] = [status |-> 500, processed |-> 0]]
    /\ event' = [event EXCEPT ![c] = NoEvent]
    /\ UNCHANGED <<loaded_model, user_scores, stats, stats_lock, pool_queue, blen, idx,
                   processed_count,
                   h_expected, h_good, h_appended, h_failed, h_median_calls, h_last,
                   h_invalid, h_records, h_before>>

\* For the history variables: the step from the windows us to us2 put sample at
\* the tail of user_id's window.
PutSample(us, us2, user_id, sample) ==
    /\ us2 # us
    /\ user_id \in DOMAIN us2
    /\ us2[user_id] # <<>>
    /\ us2[user_id][Len(us2[user_id])] = sample

\* Mutant of ScoreRecorded: the Record is not awaited, the loop counts the item
\* and goes on to the next one before the sample is in the window.
ScoreRecordedLate(c) ==
    /\ pc[c] = "running"
    /\ response' = NoResponse
    /\ Outcome(c).ok
    /\ IntOf(event[c].timestamp).ok
    /\ RunLoop(c, blen[c], idx[c], processed_count[c] + 1, stats)
    /\ UNCHANGED <<loaded_model, user_scores, stats_lock, blen, h_appended, h_failed,
                   h_median_calls, h_last, h_records, h_before>>

\* main.py:150-151, then the loop again: record the sample, count the item.
ScoreRecorded(c) ==
    /\ pc[c] = "running"
    /\ response' = NoResponse
    /\ Outcome(c).ok
    /\ IntOf(event[c].timestamp).ok
    /\ LET user_id == event[c].user_id
           ts == IntOf(event[c].timestamp).val
           score == Outcome(c).val
           us == UpdateUserScores(user_scores, user_id, ts, score)
       IN  /\ user_scores' = us
           /\ h_appended' = [h_appended EXCEPT ![c] =
                  IF PutSample(user_scores, us, user_id, <<ts, score>>) THEN @ + 1 ELSE @]
           /\ h_last' = [h_last EXCEPT ![user_id] = Num(ts)]
           /\ h_records' = [h_records EXCEPT ![user_id] =
                  Append(@, [ts |-> ts, score |-> score, call |-> c, pos |-> idx[c]])]
           /\ h_before' = [h_before EXCEPT ![user_id] =
                  IF user_id \in DOMAIN user_scores THEN user_scores[user_id] ELSE <<>>]
    /\ RunLoop(c, blen[c], idx[c], processed_count[c] + 1, stats)
    /\ UNCHANGED <<loaded_model, stats_lock, blen, h_failed,
                   h_median_calls>>

\* Mutant of Median: a request for a user without a window is not counted.
MedianCountsKnownOnly(user_id) ==
    /\ stats.median_requests < MaxMedian
    /\ ~stats_lock
    /\ stats' = IF user_id \in DOMAIN user_scores THEN RecordMedianRequest(stats) ELSE stats
    /\ response' = [kind |-> "median", user |-> user_id,
                    median |-> GetUserMedian(user_scores, user_id)]
    /\ h_median_calls' = h_median_calls + 1
    /\ UNCHANGED <<loaded_model, user_scores, stats_lock, pool_queue, pc, blen, idx,
                   event, processed_count, result, h_expected, h_good, h_appended, h_failed,
                   h_last, h_invalid, h_records, h_before>>

\* main.py:160-175, one stretch: the handler never suspends.
Median(user_id) ==
    /\ stats.median_requests < MaxMedian
    /\ ~stats_lock
    /\ stats' = RecordMedianRequest(stats)
    /\ response' = [kind |-> "median", user |-> user_id,
                    median |-> GetUserMedian(user_scores, user_id)]
    /\ h_median_calls' = h_median_calls + 1
    /\ UNCHANGED <<loaded_model, user_scores, stats_lock, pool_queue, pc, blen, idx,
                   event, processed_count, result, h_expected, h_good, h_appended, h_failed,
                   h_last, h_invalid, h_records, h_before>>

\* main.py:178-194, one stretch.
GetStats ==
    /\ ~stats_lock
    /\ response' = [kind |-> "stats", body |-> Snapshot(stats)]
    /\ UNCHANGED <<loaded_model, user_scores, stats, stats_lock, pool_queue, pc, blen,
                   idx, event, processed_count, result,
                   h_expected, h_good, h_appended, h_failed, h_median_calls, h_last,
                   h_invalid, h_records, h_before>>

Next ==
    \/ \E c \in Ingests : IngestReject(c)
    \/ \E c \in Ingests : IngestStart(c)
    \/ \E c \in Ingests : WorkerStart(c)
    \/ \E c \in Ingests : ScoreFailed(c)
    \/ \E c \in Ingests : TimestampError(c)
    \/ \E c \in Ingests : ScoreRecorded(c)
    \/ \E u \in Users : Median(u)
    \/ GetStats

Spec == Init /\ [][Next]_vars

\* The continuation of call c after its scoring call: whichever of the three
\* ways the result is taken up.
Resume(c) == ScoreFailed(c) \/ TimestampError(c) \/ ScoreRecorded(c)

\* Scheduling: the pool hands its oldest work item to a free thread, a thread
\* that has taken an item runs _predict_sync to its end, and the event loop
\* resumes a handler whose future is done (it runs ready callbacks in order).
FairSpec == Spec /\ \A c \in Ingests : WF_vars(WorkerStart(c)) /\ WF_vars(Resume(c))

\* ---------------------------------------------------------------- claims
InFlight(c) == pc[c] \in {"queued", "running"}
Returned(c) == pc[c] = "done"
Aborted(c) == pc[c] = "raised"
NoneInFlight == \A c \in Ingests : ~InFlight(c)
Count(S) == Cardinality(S)
Window(u) == IF u \in DOMAIN user_scores THEN user_scores[u] ELSE <<>>

\* C1: after each Record(user, t, score), every sample retained in that user's
\* window has a timestamp >= t - WINDOW_SECONDS, whatever the order of the
\* timestamps.  (Stated as written; the code does not keep it.)
C1_WindowInvariant ==
    \A u \in Users :
        h_last[u].tag = "num" =>
            \A k \in 1..Len(Window(u)) :
                Window(u)[k][1] >= h_last[u].val - ROLLING_WINDOW_SECONDS

\* C2: the processed count an Ingest call returns is the number of items of its
\* batch with all three fields present and a successful scoring, and the call
\* appended exactly that many samples to the windows.
C2_ProcessedCountConservation ==
    \A c \in Ingests :
        Returned(c) =>
            /\ idx[c] = blen[c]
            /\ result[c].processed = h_expected[c]
            /\ h_appended[c] = result[c].processed

C2_Witness ==
    \E c, d \in Ingests :
        /\ Returned(c) /\ blen[c] = 2 /\ result[c].processed = 1 /\ h_failed[c] = 1
        /\ InFlight(d)

\* C3: once all the Ingest calls that ran have finished, events_processed is the
\* sum of the processed counts they returned; when every batch held only
\* well-formed events that the scorer accepts, that is the total number of
\* events (N*M for N batches of M events).
C3_NoLostUpdates ==
    NoneInFlight =>
        /\ stats.events_processed =
              SumSeq([c \in Ingests |-> IF Returned(c) THEN result[c].processed ELSE 0])
        /\ (\A c \in Ingests : pc[c] # "idle" => pc[c] # "rejected" /\ h_good[c] = blen[c])
              => stats.events_processed = SumSeq(blen)

C3_Witness ==
    /\ \A c \in Ingests : Returned(c) /\ blen[c] = MaxBatch /\ h_good[c] = MaxBatch
    /\ stats.events_processed = MaxIngest * MaxBatch

\* The k-th smallest value of the sequence s is x.
IsKth(s, x, k) ==
    /\ Count({i \in 1..Len(s) : s[i] < x}) < k
    /\ k <= Count({i \in 1..Len(s) : s[i] <= x})

\* m is the standard median of the non-empty sequence s: the mean of the values
\* of rank ceil(n/2) and floor(n/2) + 1 (one and the same value for an odd n).
IsStandardMedian(s, m) ==
    \E a, b \in {s[i] : i \in 1..Len(s)} :
        /\ IsKth(s, a, (Len(s) + 1) \div 2)
        /\ IsKth(s, b, Len(s) \div 2 + 1)
        /\ 2 * m = a + b

ScoresOf(u) == [k \in 1..Len(Window(u)) |-> Window(u)[k][2]]

\* C4: a Median call returns the standard median of the scores in the user's
\* window, and null when the user is unknown or the window is empty.  (response
\* is the answer of the step just taken, which left the windows as they were.)
C4_MedianCorrect ==
    response.kind = "median" =>
        IF Window(response.user) = <<>>
        THEN response.median = Null
        ELSE /\ response.median.tag = "num"
             /\ IsStandardMedian(ScoresOf(response.user), response.median.val)

C4_Witness ==
    /\ response.kind = "median"
    /\ response.median = Num(4)

\* C5: when the scoring of an item fails, the item is not counted, no window
\* changes, the call does not end with an error and goes on to the later items
\* of the batch; with no scorer loaded every Ingest returns processed 0 and
\* Median and Snapshot stay available.
C5_ScoringFailureRecovered ==
    [][/\ \A c \in Ingests :
            (pc[c] = "running" /\ pc'[c] # "running" /\ ~Scorable(event[c])) =>
                /\ user_scores' = user_scores
                /\ processed_count'[c] = processed_count[c]
                /\ pc'[c] \in {"queued", "done"}
                /\ pc'[c] = "queued" => idx'[c] > idx[c]
                /\ pc'[c] = "done" =>
                      /\ idx'[c] = blen[c]
                      /\ result'[c] = [status |-> 200, processed |-> processed_count[c]]
       /\ ~loaded_model =>
            /\ \A c \in Ingests : ~Aborted(c)' /\ (Returned(c)' => result'[c].processed = 0)
            /\ user_scores' = user_scores
            /\ ENABLED GetStats
            /\ stats.median_requests < MaxMedian => ENABLED Median("u1")]_vars

C5_Witness ==
    \E c \in Ingests :
        /\ loaded_model
        /\ h_failed[c] = 1 /\ blen[c] = 2
        /\ Returned(c) /\ result[c].processed = 1
        /\ Len(Window("u1")) = 1

\* C6: an invalid event (a missing user_id, timestamp or features) is never sent
\* to the scorer and changes nothing: a step in which no scoring result is taken
\* leaves every window and every processed count as it was, and a step that
\* takes one scoring result touches at most the window of that item's user.
C6_InvalidEventDiscarded ==
    [][/\ \A c \in Ingests : InFlight(c)' => AllPresent(event'[c])
       /\ (\A c \in Ingests : pc[c] = "running" => pc'[c] = "running") =>
            /\ user_scores' = user_scores
            /\ \A c \in Ingests : processed_count'[c] = processed_count[c]
            /\ stats'.events_processed = stats.events_processed
       /\ \A c \in Ingests : (pc[c] = "running" /\ pc'[c] # "running") =>
            /\ \A u \in DOMAIN user_scores' :
                  u # event[c].user_id => u \in DOMAIN user_scores /\ user_scores'[u] = user_scores[u]
            /\ processed_count'[c] <= processed_count[c] + 1]_vars

C6_Witness ==
    /\ loaded_model
    /\ Returned(1) /\ blen[1] = 1 /\ h_expected[1] = 0 /\ h_failed[1] = 0
    /\ result[1].processed = 0
    /\ DOMAIN user_scores = {}
    /\ response.kind = "median" /\ response.user = "u1" /\ response.median = Null

\* C7: every Ingest call given a batch completes as a success with a processed
\* count and performs exactly one RecordEventsProcessed.  (Stated as written; the
\* code does not keep it.)
C7_IngestAlwaysSucceeds ==
    /\ \A c \in Ingests : (Returned(c) \/ Aborted(c)) => result[c].status = 200
    /\ NoneInFlight => Len(stats.ingest_latencies) = stats.ingest_requests

\* C8 as written: ingest_requests is the number of completed Ingest calls and
\* median_requests the number of completed Median calls.
C8_CountersMatchCompleted ==
    /\ stats.ingest_requests = Count({c \in Ingests : Returned(c) \/ Aborted(c)})
    /\ stats.median_requests = h_median_calls

\* C8 as amended: ingest_requests is the number of Ingest calls that have taken up
\* a batch, in flight or finished, hence the number of finished ones whenever no
\* call is in flight; median_requests is the number of completed Median calls.
C8_CountersMatchStarted ==
    /\ stats.ingest_requests =
          Count({c \in Ingests : InFlight(c) \/ Returned(c) \/ Aborted(c)})
    /\ stats.ingest_requests >= Count({c \in Ingests : Returned(c) \/ Aborted(c)})
    /\ NoneInFlight =>
          stats.ingest_requests = Count({c \in Ingests : Returned(c) \/ Aborted(c)})
    /\ stats.median_requests = h_median_calls

C8_Witness ==
    /\ InFlight(1) /\ Returned(2)
    /\ stats.ingest_requests = 2
    /\ stats.median_requests = 1
    /\ response.kind = "median" /\ response.median = Null

IsPrefix(s, t) == Len(s) <= Len(t) /\ \A i \in 1..Len(s) : s[i] = t[i]

\* C9: in every step the three counters do not decrease and the list of latency
\* samples only grows at its end.
C9_StatsMonotone ==
    [][/\ stats'.ingest_requests >= stats.ingest_requests
       /\ stats'.events_processed >= stats.events_processed
       /\ stats'.median_requests >= stats.median_requests
       /\ IsPrefix(stats.ingest_latencies, stats'.ingest_latencies)]_vars

C9_Witness ==
    /\ Len(stats.ingest_latencies) = 2
    /\ stats.events_processed >= 2
    /\ stats.median_requests >= 1

\* C10: the four values of one Snapshot response are those of the one stats state
\* the call ran in, the average being the mean of the recorded latencies, and 0.0
\* when none has been recorded.  (response is the answer of the step just taken.)
C10_SnapshotConsistent ==
    response.kind = "stats" =>
        /\ response.body.ingest_requests = stats.ingest_requests
        /\ response.body.events_processed = stats.events_processed
        /\ response.body.median_requests = stats.median_requests
        /\ LET avg == response.body.avg_ingest_latency_seconds
               n == Len(stats.ingest_latencies)
           IN  /\ avg.den > 0
               /\ IF n = 0 THEN avg.num = 0
                  ELSE avg.num * n = SumSeq(stats.ingest_latencies) * avg.den

C10_Witness ==
    /\ response.kind = "stats"
    /\ response.body.ingest_requests = 2
    /\ response.body.events_processed = 1
    /\ response.body.median_requests = 1
    /\ response.body.avg_ingest_latency_seconds = [num |-> 3, den |-> 1]
    /\ \E c \in Ingests : InFlight(c)

\* The samples of the Records of user u, in the order the Records took place.
Recorded(u) == [k \in 1..Len(h_records[u]) |-> <<h_records[u][k].ts, h_records[u][k].score>>]

\* One Record applied to the window w, as the description has it: the sample s
\* goes to the tail, then the stale samples at the head go, up to the first
\* sample that is not stale.
StaleFor(x, s) == x[1] < s[1] - ROLLING_WINDOW_SECONDS
RecordOnce(w, s) ==
    LET a == Append(w, s)
        first == CHOOSE j \in 1..Len(a) :
                     /\ ~StaleFor(a[j], s)
                     /\ \A i \in 1..(j - 1) : StaleFor(a[i], s)
    IN  SubSeq(a, first, Len(a))

\* The Records of the sequence recs applied one after another to an absent window.
RECURSIVE Serial(_)
Serial(recs) ==
    IF recs = <<>> THEN <<>>
    ELSE RecordOnce(Serial(SubSeq(recs, 1, Len(recs) - 1)), recs[Len(recs)])

\* C11: Record is atomic per user.  Each successful Record of each Ingest call
\* contributes exactly one sample, none lost and none duplicated, and every
\* user's window is the window that the same Records leave when they are applied
\* one after another, in the order they took place, also while calls interleave.
C11_RecordAtomic ==
    /\ \A u \in Users : Window(u) = Serial(Recorded(u))
    /\ \A c \in Ingests :
           /\ h_appended[c] = processed_count[c]
           /\ processed_count[c] =
                  Count({<<u, k>> \in Users \X (1..(MaxIngest * MaxBatch)) :
                            k <= Len(h_records[u]) /\ h_records[u][k].call = c})

\* Two calls in flight at once have each recorded for u1, one between two Records
\* of the other.
C11_Witness ==
    /\ Len(h_records["u1"]) = 3
    /\ h_records["u1"][1].call = 1
    /\ h_records["u1"][2].call = 2
    /\ h_records["u1"][3].call = 1
    /\ InFlight(2)

\* C12: a Median call computes from the window that the completed Records of the
\* user left (or from the absent window before the first Record): the new sample
\* at the tail, no stale sample at the head, never a window that is appended to
\* but not pruned.  (response is the answer of the Median step just taken.)
C12_MedianSeesCompletedRecord ==
    response.kind = "median" =>
        LET u == response.user
            w == Serial(Recorded(u))
        IN  IF h_records[u] = <<>>
            THEN Window(u) = <<>> /\ response.median = Null
            ELSE /\ Window(u)[Len(Window(u))] = Recorded(u)[Len(Recorded(u))]
                 /\ ~StaleFor(Window(u)[1], Recorded(u)[Len(Recorded(u))])
                 /\ response.median.tag = "num"
                 /\ IsStandardMedian([k \in 1..Len(w) |-> w[k][2]], response.median.val)

\* A Median for u1 answered between two Records of a call in flight, after a
\* Record that pruned.
C12_Witness ==
    /\ response.kind = "median"
    /\ response.user = "u1"
    /\ response.median.tag = "num"
    /\ Len(Window("u1")) < Len(h_records["u1"])
    /\ \E c \in Ingests : InFlight(c) /\ h_appended[c] > 0

\* The last Record of user u, and whether u has had one.
HasRecord(u) == h_records[u] # <<>>
LastRecord(u) == Recorded(u)[Len(Recorded(u))]

\* C13: Record(user, t, score) appends the sample and removes exactly the samples
\* with timestamp < t - WINDOW_SECONDS: the window after a Record is the window
\* before it plus the new sample, less every sample older than the cutoff (a
\* sample at exactly the cutoff stays).  (Stated as written; the code does not
\* keep it when timestamps arrive out of order.)
C13_RecordRemovesExactlyStale ==
    \A u \in Users :
        HasRecord(u) =>
            Window(u) = SelectSeq(Append(h_before[u], LastRecord(u)),
                                  LAMBDA x : ~StaleFor(x, LastRecord(u)))

\* The sample s arrives late for the window w: w holds a sample newer than s.
Late(w, s) == \E j \in 1..Len(w) : w[j][1] > s[1]

IsSuffix(s, t) == Len(s) <= Len(t) /\ s = SubSeq(t, Len(t) - Len(s) + 1, Len(t))

\* C15: in every reachable state each user's window is a contiguous suffix of
\* the sequence of all samples recorded for that user, in the order of the
\* Record calls (not of the timestamps): a Record adds at the tail and removes
\* at the head only, and nothing is reordered.
C15_WindowIsSuffixOfRecords ==
    \A u \in Users :
        /\ IsSuffix(Window(u), Recorded(u))
        /\ HasRecord(u) => IsSuffix(Window(u), Append(h_before[u], LastRecord(u)))

\* The window holds the samples out of timestamp order, after a Record that
\* pruned: 0, then 500 (which removes 0), then 0 again.
C15_Witness ==
    /\ Len(h_records["u1"]) = 3
    /\ Window("u1") = <<<<500, 6>>, <<0, 2>>>>

\* A step in which call c takes further items of its batch although the result
\* of its scoring call has not been taken (no item failed, none was recorded).
GoesOn(c) ==
    /\ Next
    /\ idx'[c] > idx[c]
    /\ h_failed'[c] = h_failed[c]
    /\ h_appended'[c] = h_appended[c]
    /\ processed_count'[c] = processed_count[c]

\* C16 as written: while the scoring call of one item of a batch is outstanding
\* and the batch has items left, the Ingest call that owns the batch can go on
\* to other items of it; and other callers can submit their work.
C16_BatchNotSerialized ==
    /\ \A c \in Ingests : (InFlight(c) /\ idx[c] < blen[c]) => ENABLED GoesOn(c)
    /\ \A d \in Ingests : NextSlot(d) => ENABLED IngestStart(d)

\* C16, amended: while the scoring call of one item is outstanding the owning
\* Ingest call is suspended, it takes no other item of its batch before that
\* result is in; other callers are not held up by it, a new Ingest call can
\* take up its batch and submit its own scoring work at any time.
C16_OnlyOtherCallersGoOn ==
    /\ \A c \in Ingests : InFlight(c) => ~ENABLED GoesOn(c)
    /\ \A d \in Ingests : NextSlot(d) => ENABLED IngestStart(d)

\* The scoring call of call 1 is running, its batch has an item left, and call 2
\* has submitted scoring work of its own.
C16_Witness ==
    /\ pc[1] = "running"
    /\ idx[1] < blen[1]
    /\ pc[2] = "queued"

\* C17: with fair scheduling and scoring calls that return or fail, every
\* Ingest call that has taken up a batch completes, however the calls interleave;
\* the stats lock is never held while a call waits, so that Median and Snapshot,
\* which do not wait for the pool, can always run to their end.
C17_EveryCallCompletes ==
    /\ \A c \in Ingests : InFlight(c) ~> ~InFlight(c)
    /\ [](~stats_lock /\ ENABLED GetStats)
    /\ [](stats.median_requests < MaxMedian => \A u \in Users : ENABLED Median(u))

\* Both calls have completed a batch of MaxBatch items; a scoring call of call 1
\* failed and call 2 recorded a sample.
C17_Witness ==
    /\ \A c \in Ingests : Returned(c) /\ blen[c] = MaxBatch
    /\ h_failed[1] > 0
    /\ h_appended[2] > 0

\* C18: a Record never prunes the sample it has just inserted: once a user has
\* had a successful Record the window is never empty again, its tail is the
\* sample of the last Record, and every Median for that user is non-null.
C18_InsertedSampleSurvives ==
    /\ \A u \in Users :
           HasRecord(u) =>
               /\ Window(u) # <<>>
               /\ Window(u)[Len(Window(u))] = LastRecord(u)
    /\ (response.kind = "median" /\ HasRecord(response.user)) => response.median # Null

\* A Median for u1 is answered when a Record has pruned every sample but the one
\* it inserted.
C18_Witness ==
    /\ response.kind = "median"
    /\ response.user = "u1"
    /\ response.median # Null
    /\ Len(h_records["u1"]) >= 2
    /\ Len(Window("u1")) = 1

\* The scoring calls of call c that the pool holds, waiting or running.
Outstanding(c) ==
    Count({k \in 1..Len(pool_queue) : pool_queue[k] = c}) + (IF pc[c] = "running" THEN 1 ELSE 0)

\* C19: within one Ingest call the items are handled strictly in batch order,
\* with at most one scoring call outstanding: when the scoring of an item is
\* dispatched every item before it is finished with (skipped, failed, or
\* recorded in its window), and the samples of one batch enter a window in batch
\* order, also when other batches interleave.
C19_BatchOrder ==
    /\ \A c \in Ingests :
           /\ Outstanding(c) = (IF InFlight(c) THEN 1 ELSE 0)
           /\ InFlight(c) =>
                  /\ h_invalid[c] + h_failed[c] + processed_count[c] = idx[c] - 1
                  /\ h_appended[c] = processed_count[c]
           /\ Returned(c) => h_invalid[c] + h_failed[c] + h_appended[c] = blen[c]
    /\ \A u \in Users : \A i, j \in 1..Len(h_records[u]) :
           (i < j /\ h_records[u][i].call = h_records[u][j].call) =>
               h_records[u][i].pos < h_records[u][j].pos

\* Two batches of two items each for u1, interleaved: each batch's first sample
\* is in the records before its second.
C19_Witness ==
    /\ Len(h_records["u1"]) = 4
    /\ h_records["u1"][1].call = 1 /\ h_records["u1"][1].pos = 1
    /\ h_records["u1"][2].call = 2 /\ h_records["u1"][2].pos = 1
    /\ h_records["u1"][3].call = 1 /\ h_records["u1"][3].pos = 2
    /\ h_records["u1"][4].call = 2 /\ h_records["u1"][4].pos = 2

\* The number of samples ever appended to the windows.
SamplesAppended == Len(h_records["u1"]) + Len(h_records["u2"])

\* C20: in every reachable state events_processed is at most the number of
\* samples ever appended to the windows and the number of latency samples is at
\* most ingest_requests, and both pairs are equal whenever no Ingest call is in
\* flight.  (Stated as written; the code does not keep the equalities.)
C20_CountersMatchSamples ==
    /\ stats.events_processed <= SamplesAppended
    /\ Len(stats.ingest_latencies) <= stats.ingest_requests
    /\ NoneInFlight =>
           /\ stats.events_processed = SamplesAppended
           /\ Len(stats.ingest_latencies) = stats.ingest_requests

====
